---- MODULE Spec2Model ----
(***************************************************************************)
(* A model of the jive evaluation engine (server/src/engine.ts): the       *)
(* process-wide namespace store, the babel source rewriter, the scope in   *)
(* which rewritten code runs, and evaluate() with its recursive evaluation *)
(* of imported files.                                                      *)
(*                                                                         *)
(* Source fragments are sequences of top-level statements of a small       *)
(* JavaScript subset; values are records of one shape.                     *)
(***************************************************************************)
EXTENDS Integers, Sequences, FiniteSets, TLC

VARIABLES
  namespaces,    \* Map<Namespace, Map<key, value>>            (engine.ts:20)
  valueExports,  \* Map<Namespace, Map<exported, Export>>      (engine.ts:30)
  valueImports,  \* Map<Namespace, Map<local, Import>>         (engine.ts:42)
  uuidCount,     \* number of ids handed out by uuid() so far
  last           \* the most recent evaluate() call and its outcome

vars == <<namespaces, valueExports, valueImports, uuidCount, last>>

(***************************************************************************)
(* Bounds of the model.                                                    *)
(***************************************************************************)
\* evaluate() calls nested deeper than this are reported as a stack overflow
MaxDepth == 4
\* ids uuid() may hand out in one behaviour
MaxUuid == 2

(***************************************************************************)
(* Values.                                                                 *)
(***************************************************************************)
Val(t, n, s, p) == [t |-> t, n |-> n, s |-> s, p |-> p]
Undefined == Val("undefined", 0, "", {})
Num(i) == Val("number", i, "", {})
Str(x) == Val("string", 0, x, {})
\* a module object loaded by the host's own loader
HostModule(id) == Val("hostmodule", 0, id, {})
\* a global of the host platform
HostGlobal(id) == Val("hostglobal", 0, id, {})
\* one of the CommonJS stubs or helper functions put in the vm context
Stub(id) == Val("stub", 0, id, {})
\* a plain object; p is its set of <<property, value>> pairs
Obj(p) == Val("object", 0, "", p)

\* Map.set
MapSet(m, k, v) == [x \in (DOMAIN m) \cup {k} |-> IF x = k THEN v ELSE m[x]]
\* Map.get(k) || new Map()
MapGetOrEmpty(m, k) == IF k \in DOMAIN m THEN m[k] ELSE <<>>
EmptyMap == <<>>

symbols ==
  [defaultExport |-> "[[defaultExport]]", namespaceExport |-> "[[namespaceExport]]"]

(***************************************************************************)
(* The store, threaded through the operators as one record.                *)
(***************************************************************************)
\* log is the history of the running evaluate() call: the registrations made
\* and the evaluations started, in order. It is not read by the engine.
Store(ns, ex, im, u) ==
  [namespaces |-> ns, valueExports |-> ex, valueImports |-> im, uuid |-> u,
   log |-> <<>>]

Event(ev, ns, key, value) == [ev |-> ev, ns |-> ns, key |-> key, value |-> value]
Logged(st, e) == [st EXCEPT !.log = Append(st.log, e)]

\* a registerValue that keeps the value a key already has
registerValueKeepFirst(st, namespace, key, value) ==
  LET values == MapGetOrEmpty(st.namespaces, namespace)
  IN  [st EXCEPT !.namespaces =
         MapSet(st.namespaces, namespace,
                IF key \in DOMAIN values THEN values ELSE MapSet(values, key, value))]

registerValue(st, namespace, key, value) ==
  LET values == MapGetOrEmpty(st.namespaces, namespace)
  IN  [st EXCEPT !.namespaces = MapSet(st.namespaces, namespace, MapSet(values, key, value))]

registerValueExport(st, namespace, local, exported) ==
  LET nsExports == MapGetOrEmpty(st.valueExports, namespace)
  IN  [st EXCEPT !.valueExports =
         MapSet(st.valueExports, namespace,
                MapSet(nsExports, exported, [exported |-> exported, local |-> local]))]

registerDefaultValueExport(st, namespace, local) ==
  LET exports == MapGetOrEmpty(st.valueExports, namespace)
  IN  [st EXCEPT !.valueExports =
         MapSet(st.valueExports, namespace,
                MapSet(exports, symbols.defaultExport,
                       [exported |-> symbols.defaultExport, local |-> local]))]

\* registerValueImport normalizes the specifier itself; ImportDeclaration.enter
\* has resolved the same specifier just before, so the path is passed in here.
registerValueImport(st, importingNamespace, local, imported, absoluteImportedNamespace, isBuiltIn) ==
  LET imports == MapGetOrEmpty(st.valueImports, importingNamespace)
  IN  [st EXCEPT !.valueImports =
         MapSet(st.valueImports, importingNamespace,
                MapSet(imports, local,
                       [imported |-> imported, local |-> local,
                        importedNamespace |-> absoluteImportedNamespace,
                        isBuiltIn |-> isBuiltIn]))]

(***************************************************************************)
(* Source fragments: sequences of top-level statements.                    *)
(***************************************************************************)
Expr(k, n, v, s) == [k |-> k, n |-> n, v |-> v, s |-> s]
Lit(v) == Expr("lit", "", v, "")            \* a number literal
Ref(n) == Expr("ref", n, 0, "")             \* an identifier
Twice(n) == Expr("twice", n, 0, "")         \* n * 2
Require(s) == Expr("require", "", 0, s)     \* require('s')
DynImport(s) == Expr("import", "", 0, s)    \* import('s')
Member(n, p) == Expr("member", n, 0, p)     \* n.p
ObjLit == Expr("obj", "", 0, "")            \* {}

Stmt(k, n, m, s, e) == [k |-> k, n |-> n, m |-> m, s |-> s, e |-> e, ret |-> FALSE]
NoExpr == Lit(0)
Const(n, e) == Stmt("const", n, "", "", e)                  \* const n = e
ExportConst(n, e) == Stmt("export_const", n, "", "", e)     \* export const n = e
FunctionDecl(n) == Stmt("function", n, "", "", NoExpr)          \* function n() {}
ClassDecl(n) == Stmt("class", n, "", "", NoExpr)                \* class n {}
ExportFunction(n) == Stmt("export_function", n, "", "", NoExpr) \* export function n() {}
ExportClass(n) == Stmt("export_class", n, "", "", NoExpr)       \* export class n {}
ExportSpec(n, m) == Stmt("export_spec", n, m, "", NoExpr)   \* export { n as m }
ExportDefaultId(n) == Stmt("export_default_id", n, "", "", NoExpr)  \* export default n
ExportDefaultExpr(e) == Stmt("export_default_expr", "", "", "", e)  \* export default 5
ExprStmt(e) == Stmt("expr", "", "", "", e)                  \* e;
Throw == Stmt("throw", "", "", "", NoExpr)                  \* throw new Error()
IfTrue(e) == Stmt("if", "", "", "", e)                      \* if (true) e;
ModuleExports(e) == Stmt("module_exports", "", "", "", e)   \* module.exports = e
ExportsSet(n, e) == Stmt("exports_set", n, "", "", e)       \* exports.n = e
Assign(n, e) == Stmt("assign", n, "", "", e)                \* n = e
ImportNamed(n, m, s) == Stmt("import_named", n, m, s, NoExpr)      \* import { m as n } from 's'
ImportDefault(n, s) == Stmt("import_default", n, "", s, NoExpr)    \* import n from 's'
ImportNamespace(n, s) == Stmt("import_namespace", n, "", s, NoExpr) \* import * as n from 's'

ImportKinds == {"import_named", "import_default", "import_namespace"}
\* statements that are ExpressionStatement nodes
ExpressionKinds ==
  {"expr", "module_exports", "exports_set", "assign", "registerValue",
   "registerValueExport", "registerDefaultValueExport"}

(***************************************************************************)
(* The file system and the host's module loader.                           *)
(***************************************************************************)
Disk ==
  [p \in {"/A", "/B", "/V", "/M", "/P", "/Q", "/R", "/S"} |->
     CASE p = "/A" -> <<ImportNamed("b", "b", "./B"), ExportConst("a", Lit(1))>>
       [] p = "/B" -> <<ImportNamed("a", "a", "./A"), ExportConst("b", Lit(2))>>
       [] p = "/V" -> <<ExportConst("x", Lit(42))>>
       [] p = "/M" -> <<ModuleExports(Lit(99))>>
       [] p = "/P" -> <<Const("p", Lit(1)), ExprStmt(Require("/Q"))>>
       [] p = "/Q" -> <<ExprStmt(Require("/P"))>>
       [] p = "/R" -> <<Const("r", Lit(1)), ExprStmt(DynImport("./S"))>>
       [] p = "/S" -> <<ExprStmt(DynImport("./R"))>>]

\* fsPath.isAbsolute
isAbsolute(s) == s \in DOMAIN Disk

\* the built-in modules of the host
BuiltIns == {"fs"}

\* createRequire(importingNamespace).resolve(importedNamespace); every file of
\* the model lives in the directory "/".
RequireResolve(importingNamespace, importedNamespace) ==
  CASE importedNamespace = "./A" -> "/A"
    [] importedNamespace = "./B" -> "/B"
    [] importedNamespace = "./V" -> "/V"
    [] importedNamespace = "./M" -> "/M"
    [] importedNamespace = "./R" -> "/R"
    [] importedNamespace = "./S" -> "/S"
    [] importedNamespace \in DOMAIN Disk -> importedNamespace
    [] importedNamespace \in BuiltIns -> importedNamespace
    [] OTHER -> "MODULE_NOT_FOUND"

\* a resolver that gives the specifier back when it cannot resolve it
normalizeImportPathLenient(importingNamespace, importedNamespace) ==
  LET resolved == RequireResolve(importingNamespace, importedNamespace)
  IN  [ok |-> TRUE,
       path |-> IF resolved = "MODULE_NOT_FOUND" THEN importedNamespace ELSE resolved]

normalizeImportPath(importingNamespace, importedNamespace) ==
  LET resolved == RequireResolve(importingNamespace, importedNamespace)
  IN  [ok |-> resolved # "MODULE_NOT_FOUND", path |-> resolved]

\* createRequire(ns)(id): the host loads the module itself. A built-in gives
\* its module object. A file is run by the host from disk, outside the store:
\* a CommonJS file gives what it assigned to module.exports, a file with
\* import/export syntax is rejected by the CommonJS loader.
HostRequire(id) ==
  IF id \in BuiltIns THEN [thrown |-> FALSE, value |-> HostModule(id)]
  ELSE IF id \notin DOMAIN Disk THEN [thrown |-> TRUE, value |-> Undefined]
  ELSE LET code == Disk[id]
           esm == \E i \in 1..Len(code) :
                    code[i].k \in ImportKinds \cup
                      {"export_const", "export_function", "export_class",
                       "export_spec", "export_default_id", "export_default_expr"}
           assigned == {i \in 1..Len(code) : code[i].k = "module_exports"}
       IN  IF esm THEN [thrown |-> TRUE, value |-> Undefined]
           ELSE IF assigned = {} THEN [thrown |-> FALSE, value |-> Obj({})]
           ELSE LET i == CHOOSE j \in assigned : \A k \in assigned : k <= j
                IN  [thrown |-> FALSE,
                     value |-> IF code[i].e.k = "lit" THEN Num(code[i].e.v)
                               ELSE Undefined]

(***************************************************************************)
(* The source rewriter (the babel plugin of transformer()).                *)
(***************************************************************************)
\* the calls the plugin inserts; m is the identifier whose value is passed
RegisterValueCall(key, m) == Stmt("registerValue", key, m, "", NoExpr)
RegisterValueExportCall(local, exported) ==
  Stmt("registerValueExport", local, exported, "", NoExpr)
RegisterDefaultValueExportCall(local) ==
  Stmt("registerDefaultValueExport", local, "", "", NoExpr)

\* What one top-level statement has become when the traversal is over.
\* Program inserts registerValue after the statement of every binding that is
\* not an import; ExportNamedDeclaration and ExportDefaultDeclaration insert
\* their registration directly after their own statement, hence before the
\* registerValue that Program put there; ImportDeclaration.exit removes the
\* import. ExportNamedDeclaration registers the export of a binding whose
\* ancestors are VariableDeclarator/VariableDeclaration/ExportNamedDeclaration
\* or FunctionDeclaration/ExportNamedDeclaration, and of no other binding.
RewriteStatement(s) ==
  CASE s.k = "const" -> <<s, RegisterValueCall(s.n, s.n)>>
    [] s.k = "export_const" ->
         <<[s EXCEPT !.k = "const"], RegisterValueExportCall(s.n, s.n),
           RegisterValueCall(s.n, s.n)>>
    [] s.k \in {"function", "class"} -> <<s, RegisterValueCall(s.n, s.n)>>
    [] s.k = "export_function" ->
         <<FunctionDecl(s.n), RegisterValueExportCall(s.n, s.n),
           RegisterValueCall(s.n, s.n)>>
    [] s.k = "export_class" -> <<ClassDecl(s.n), RegisterValueCall(s.n, s.n)>>
    [] s.k = "export_spec" -> <<RegisterValueExportCall(s.n, s.m)>>
    [] s.k = "export_default_id" ->
         <<ExprStmt(Ref(s.n)), RegisterDefaultValueExportCall(s.n)>>
    [] s.k \in ImportKinds -> <<>>
    [] OTHER -> <<s>>

RECURSIVE RewriteAll(_)
RewriteAll(code) ==
  IF code = <<>> THEN <<>>
  ELSE RewriteStatement(Head(code)) \o RewriteAll(Tail(code))

\* a rewrite that leaves the calls the plugin inserted as they are
ReturnLastWritten(body) ==
  [i \in 1..Len(body) |->
     IF \/ body[i].k = "if"
        \/ i = Len(body) /\ body[i].k \in {"expr", "module_exports"}
     THEN [body[i] EXCEPT !.ret = TRUE]
     ELSE body[i]]

\* ExpressionStatement: an expression statement of the Program scope with no
\* next sibling becomes a return of its expression. The body of an unbraced
\* `if` is in the Program scope and has no siblings at all.
ReturnLast(body) ==
  [i \in 1..Len(body) |->
     IF \/ body[i].k = "if"
        \/ i = Len(body) /\ body[i].k \in ExpressionKinds
     THEN [body[i] EXCEPT !.ret = TRUE]
     ELSE body[i]]

\* the code babel.transformSync gives back, when no visitor throws
Rewritten(code) == ReturnLast(RewriteAll(code))

\* Imports come first in a fragment, as in a module: an expression statement
\* is then the last child when it is visited exactly if it is the last
\* statement of the rewritten program.
ImportsFirst(code) ==
  \A i \in 1..Len(code) : \A j \in 1..Len(code) :
     (i < j /\ code[j].k \in ImportKinds) => code[i].k \in ImportKinds

(***************************************************************************)
(* The scope rewritten code runs in.                                       *)
(***************************************************************************)
\* a namespace object made of the literals the file on disk exports
constructNamespaceExportFromDisk(st, namespace) ==
  LET code == IF namespace \in DOMAIN Disk THEN Disk[namespace] ELSE <<>>
  IN  Obj({ <<code[i].n, Num(code[i].e.v)>> :
              i \in {j \in 1..Len(code) : code[j].k = "export_const"} })

constructNamespaceExport(st, namespace) ==
  LET values == MapGetOrEmpty(st.namespaces, namespace)
      exports == MapGetOrEmpty(st.valueExports, namespace)
  IN  Obj({ <<IF e = symbols.defaultExport THEN "default" ELSE e,
              IF exports[e].local \in DOMAIN values THEN values[exports[e].local]
              ELSE Undefined>> : e \in DOMAIN exports })

\* the export chain of a user-module import: exports of the imported
\* namespace by the imported key, then its bindings by the export's local
ExportedValue(st, importedNamespace, imported) ==
  LET nsExports == MapGetOrEmpty(st.valueExports, importedNamespace)
      values == MapGetOrEmpty(st.namespaces, importedNamespace)
  IN  IF imported \notin DOMAIN nsExports THEN Undefined
      ELSE IF nsExports[imported].local \notin DOMAIN values THEN Undefined
      ELSE values[nsExports[imported].local]

\* a scope that holds no import of an earlier evaluation
nsImportsForScopeNone(st, namespace) == EmptyMap

nsImportsForScope(st, namespace) ==
  LET nsImports == MapGetOrEmpty(st.valueImports, namespace)
  IN  [local \in DOMAIN nsImports |->
         LET i == nsImports[local]
         IN  IF ~i.isBuiltIn /\ i.imported = symbols.namespaceExport
               THEN constructNamespaceExport(st, i.importedNamespace)
             ELSE IF i.isBuiltIn
               THEN IF i.imported \in {symbols.defaultExport, symbols.namespaceExport}
                    THEN HostRequire(i.importedNamespace).value
                    ELSE Val("hostmember", 0, i.importedNamespace, {<<i.imported, Undefined>>})
             ELSE ExportedValue(st, i.importedNamespace, i.imported)]

nsForScope(st, namespace) == MapGetOrEmpty(st.namespaces, namespace)

\* b's entries over a's, as in { ...a, ...b }
Spread(a, b) ==
  [k \in (DOMAIN a) \cup (DOMAIN b) |-> IF k \in DOMAIN b THEN b[k] ELSE a[k]]

\* the own properties of the host's global object
vmGlobal == [k \in {"console", "process"} |-> HostGlobal(k)]

cjsStubs(namespace) ==
  [k \in {"module", "exports", "require", "__filename", "__dirname"} |->
     CASE k = "__filename" -> Str(namespace)
       [] k = "__dirname" -> Str("/")
       [] OTHER -> Stub(k)]

HelperNames ==
  {"nsImportsForScope", "nsForScope", "registerValue", "registerValueExport",
   "registerValueImport", "registerDefaultValueExport", "dynamicImport"}

\* the object given to vm.createContext: the global scope of the run
ContextObject(namespace) ==
  Spread(Spread(vmGlobal, cjsStubs(namespace)), [k \in HelperNames |-> Stub(k)])

\* a lookup that asks the context's stubs first, then the imports, then the
\* bindings, then the host's globals
LookupStubsFirst(env, name) ==
  IF name \in DOMAIN env.locals THEN [found |-> TRUE, value |-> env.locals[name]]
  ELSE IF name \in env.declared THEN [found |-> FALSE, value |-> Undefined]
  ELSE IF name \in (DOMAIN env.context) \ (DOMAIN vmGlobal)
    THEN [found |-> TRUE, value |-> env.context[name]]
  ELSE IF name \in DOMAIN env.nsImportsForScope
    THEN [found |-> TRUE, value |-> env.nsImportsForScope[name]]
  ELSE IF name \in DOMAIN env.nsForScope
    THEN [found |-> TRUE, value |-> env.nsForScope[name]]
  ELSE IF name \in DOMAIN env.context
    THEN [found |-> TRUE, value |-> env.context[name]]
  ELSE [found |-> FALSE, value |-> Undefined]

\* The identifier lookup of the executed code. The fragment is the body of a
\* function nested in `with (nsImportsForScope) { with (nsForScope) {`, all in
\* the context's global scope: inner scopes first. A const of the fragment is
\* in its dead zone until its declaration has run.
Lookup(env, name) ==
  IF name \in DOMAIN env.locals THEN [found |-> TRUE, value |-> env.locals[name]]
  ELSE IF name \in env.declared THEN [found |-> FALSE, value |-> Undefined]
  ELSE IF name \in DOMAIN env.nsForScope
    THEN [found |-> TRUE, value |-> env.nsForScope[name]]
  ELSE IF name \in DOMAIN env.nsImportsForScope
    THEN [found |-> TRUE, value |-> env.nsImportsForScope[name]]
  ELSE IF name \in DOMAIN env.context
    THEN [found |-> TRUE, value |-> env.context[name]]
  ELSE [found |-> FALSE, value |-> Undefined]

(***************************************************************************)
(* The evaluator.                                                          *)
(***************************************************************************)
\* what a call of evaluate() gives: the store it leaves, and either the
\* value it returns (error = "none") or the error it throws
Outcome(st, result, error) == [st |-> st, result |-> result, error |-> error]

RECURSIVE evaluate(_, _, _, _, _)

\* what a call made by the executed code gives: a value, or an exception
\* thrown into the user code
Completion(st, value, thrown) == [st |-> st, value |-> value, thrown |-> thrown]

\* the store lookup of requireCustom, after the evaluation o of the file
RequiredDefaultExport(o, path) ==
  IF o.error # "none" THEN Completion(o.st, Undefined, TRUE)
  ELSE Completion(o.st, ExportedValue(o.st, path, symbols.defaultExport), FALSE)

HostRequired(st, m) == Completion(st, m.value, m.thrown)

requireCustom(st, importingNamespace, importedNamespace, evalImports, fuel) ==
  LET requiredNsNormalized == normalizeImportPath(importingNamespace, importedNamespace)
      isBuiltIn == ~isAbsolute(importedNamespace)
  IN  IF ~requiredNsNormalized.ok THEN Completion(st, Undefined, TRUE)
      ELSE IF isBuiltIn THEN HostRequired(st, HostRequire(requiredNsNormalized.path))
      ELSE RequiredDefaultExport(
             IF evalImports
             THEN evaluate(st, requiredNsNormalized.path, Disk[requiredNsNormalized.path],
                           evalImports, fuel)
             ELSE Outcome(st, Undefined, "none"),
             requiredNsNormalized.path)

Promise(v) == Val("promise", 0, "", {<<"value", v>>})

\* the namespace object of dynamicImport, after the evaluation o of the file
ImportedNamespaceObject(o, path) ==
  IF o.error # "none" THEN Completion(o.st, Undefined, TRUE)
  ELSE Completion(o.st, Promise(constructNamespaceExport(o.st, path)), FALSE)

dynamicImport(st, importingNamespace, importedNamespace, evalImports, fuel) ==
  LET importedNamespaceNormalized == normalizeImportPath(importingNamespace, importedNamespace)
      path == importedNamespaceNormalized.path
      isBuiltIn == ~isAbsolute(path)
  IN  IF ~importedNamespaceNormalized.ok THEN Completion(st, Undefined, TRUE)
      ELSE IF isBuiltIn THEN Completion(st, Promise(HostRequire(path).value), FALSE)
      ELSE ImportedNamespaceObject(
             IF evalImports THEN evaluate(st, path, Disk[path], evalImports, fuel)
             ELSE Outcome(st, Undefined, "none"),
             path)

\* a read of an identifier that throws when its value is undefined
IdentifierDefined(env, l) == Completion(env.st, l.value, ~l.found \/ l.value = Undefined)

\* an identifier of the fragment: unknown, it is a ReferenceError
Identifier(env, l) == Completion(env.st, l.value, ~l.found)

\* n * 2
Doubled(env, l) ==
  IF ~l.found THEN Completion(env.st, Undefined, TRUE)
  ELSE IF l.value.t = "number" THEN Completion(env.st, Num(2 * l.value.n), FALSE)
  ELSE Completion(env.st, Val("NaN", 0, "", {}), FALSE)

\* n.p, with l the lookup of n: a property of undefined is a TypeError
MemberOf(env, l, p) ==
  IF ~l.found \/ l.value.t = "undefined" THEN Completion(env.st, Undefined, TRUE)
  ELSE IF \E pair \in l.value.p : pair[1] = p
    THEN Completion(env.st, (CHOOSE pair \in l.value.p : pair[1] = p)[2], FALSE)
  ELSE IF l.value.t = "hostmodule"
    THEN Completion(env.st, Val("hostmember", 0, l.value.s, {<<p, Undefined>>}), FALSE)
  ELSE Completion(env.st, Undefined, FALSE)

\* the callee of a call is the function the context holds under that name;
\* anything else is not callable (a TypeError) or not found (a ReferenceError)
Callable(l, name) == l.found /\ l.value = Stub(name)

\* the value of an expression of the fragment
EvalExpression(env, e, namespace, evalImports, fuel) ==
  CASE e.k = "lit" -> Completion(env.st, Num(e.v), FALSE)
    [] e.k = "obj" -> Completion(env.st, Obj({}), FALSE)
    [] e.k = "ref" -> Identifier(env, Lookup(env, e.n))
    [] e.k = "twice" -> Doubled(env, Lookup(env, e.n))
    [] e.k = "member" -> MemberOf(env, Lookup(env, e.n), e.s)
    [] e.k = "require" ->
         IF ~Callable(Lookup(env, "require"), "require")
         THEN Completion(env.st, Undefined, TRUE)
         ELSE requireCustom(env.st, namespace, e.s, evalImports, fuel)
    [] e.k = "import" ->
         IF ~Callable(Lookup(env, "dynamicImport"), "dynamicImport")
         THEN Completion(env.st, Undefined, TRUE)
         ELSE dynamicImport(env.st, namespace, e.s, evalImports, fuel)

\* the ids uuid() hands out
UuidNames ==
  <<"uuid-1", "uuid-2", "uuid-3", "uuid-4", "uuid-5", "uuid-6", "uuid-7",
    "uuid-8", "uuid-9", "uuid-10", "uuid-11", "uuid-12">>
uuid(n) == IF n \in 1..Len(UuidNames) THEN UuidNames[n] ELSE "uuid-more"

\* moduleStub's set trap for `exports`
ModuleExportsSet(st, namespace, value) ==
  Logged(registerDefaultValueExport(
           Logged(registerValue([st EXCEPT !.uuid = st.uuid + 1], namespace,
                                uuid(st.uuid + 1), value),
                  Event("registerValue", namespace, uuid(st.uuid + 1), value)),
           namespace, uuid(st.uuid + 1)),
         Event("registerDefaultValueExport", namespace, uuid(st.uuid + 1), Undefined))

\* obj[prop] = value
WithProperty(obj, prop, value) ==
  [obj EXCEPT !.p = {pair \in obj.p : pair[1] # prop} \cup {<<prop, value>>}]

\* !!v
Truthy(v) ==
  ~ \/ v.t \in {"undefined", "NaN"}
    \/ v.t = "number" /\ v.n = 0
    \/ v.t = "string" /\ v.s = ""
Primitive(v) == v.t \in {"undefined", "NaN", "number", "string"}

\* the local of the namespace's default export, "" when it has none
LocalKeyOfDefaultExport(st, namespace) ==
  LET nsExports == MapGetOrEmpty(st.valueExports, namespace)
  IN  IF symbols.defaultExport \in DOMAIN nsExports
      THEN nsExports[symbols.defaultExport].local ELSE ""

\* exportsStub's set trap. With a default export registered, the property is
\* assigned on the value the default export's local holds, if that is truthy:
\* the object is changed where it is; on a primitive the assignment of the
\* strict-mode trap throws. With none, a new object holding the property is
\* registered under a new id as the default export.
ExportsStubSet(st, namespace, prop, value) ==
  LET localKeyOfDefaultExport == LocalKeyOfDefaultExport(st, namespace)
      values == MapGetOrEmpty(st.namespaces, namespace)
      defaultExport == IF localKeyOfDefaultExport \in DOMAIN values
                       THEN values[localKeyOfDefaultExport] ELSE Undefined
  IN  IF localKeyOfDefaultExport # ""
      THEN IF ~Truthy(defaultExport) THEN [st |-> st, thrown |-> FALSE]
           ELSE IF Primitive(defaultExport) THEN [st |-> st, thrown |-> TRUE]
           ELSE [st |-> Logged([st EXCEPT !.namespaces =
                                  MapSet(st.namespaces, namespace,
                                         MapSet(values, localKeyOfDefaultExport,
                                                WithProperty(defaultExport, prop, value)))],
                               Event("assignedOnDefaultExport", namespace, prop, value)),
                 thrown |-> FALSE]
      ELSE [st |-> Logged(registerDefaultValueExport(
                            Logged(registerValue([st EXCEPT !.uuid = st.uuid + 1], namespace,
                                                 uuid(st.uuid + 1), Obj({<<prop, value>>})),
                                   Event("registerValue", namespace, uuid(st.uuid + 1),
                                         Obj({<<prop, value>>}))),
                            namespace, uuid(st.uuid + 1)),
                          Event("registerDefaultValueExport", namespace, uuid(st.uuid + 1),
                                Undefined)),
            thrown |-> FALSE]

\* an expression statement has run with value v: a `return` ends the run
Done(env, st, v, s) ==
  IF s.ret THEN [env EXCEPT !.st = st, !.status = "returned", !.result = v]
  ELSE [env EXCEPT !.st = st]

Thrown(env, st) == [env EXCEPT !.st = st, !.status = "thrown"]

\* const n = e, with c the completion of e
ConstDeclared(env, s, c) ==
  IF c.thrown THEN Thrown(env, c.st)
  ELSE [env EXCEPT !.st = c.st, !.locals = MapSet(env.locals, s.n, c.value)]

\* an assignment that also registers the value as the namespace's binding
AssignedThrough(env, s, c, namespace) ==
  IF c.thrown \/ s.n \notin DOMAIN env.nsForScope THEN Thrown(env, c.st)
  ELSE Done([env EXCEPT !.nsForScope = MapSet(env.nsForScope, s.n, c.value)],
            registerValue(c.st, namespace, s.n, c.value), c.value, s)

\* n = e, with c the completion of e: the assignment goes to the innermost
\* scope that has n. A const of the fragment cannot be assigned; the with
\* objects and the context's global object are objects of this run; in the
\* strict function an unknown name is a ReferenceError.
Assigned(env, s, c, namespace) ==
  IF c.thrown THEN Thrown(env, c.st)
  ELSE IF s.n \in DOMAIN env.locals
    THEN IF s.n \in env.constants THEN Thrown(env, c.st)
         ELSE Done([env EXCEPT !.locals = MapSet(env.locals, s.n, c.value)],
                   c.st, c.value, s)
  ELSE IF s.n \in env.declared THEN Thrown(env, c.st)
  ELSE IF s.n \in DOMAIN env.nsForScope
    THEN Done([env EXCEPT !.nsForScope = MapSet(env.nsForScope, s.n, c.value)],
              c.st, c.value, s)
  ELSE IF s.n \in DOMAIN env.nsImportsForScope
    THEN Done([env EXCEPT !.nsImportsForScope = MapSet(env.nsImportsForScope, s.n, c.value)],
              c.st, c.value, s)
  ELSE IF s.n \in DOMAIN env.context
    THEN Done([env EXCEPT !.context = MapSet(env.context, s.n, c.value)],
              c.st, c.value, s)
  ELSE Thrown(env, c.st)

\* e; with c the completion of e
ExpressionDone(env, s, c) ==
  IF c.thrown THEN Thrown(env, c.st) ELSE Done(env, c.st, c.value, s)

\* module.exports = e, with c the completion of e
ModuleExportsDone(env, s, c, namespace) ==
  IF c.thrown THEN Thrown(env, c.st)
  ELSE Done(env, ModuleExportsSet(c.st, namespace, c.value), c.value, s)

\* exports.n = e, with c the completion of e and t what the set trap did
ExportsAssigned(env, s, c, t) ==
  IF t.thrown THEN Thrown(env, t.st) ELSE Done(env, t.st, c.value, s)

ExportsSetDone(env, s, c, namespace) ==
  IF c.thrown THEN Thrown(env, c.st)
  ELSE ExportsAssigned(env, s, c, ExportsStubSet(c.st, namespace, s.n, c.value))

\* registerValue(namespace, key, identifier), with l the identifier's lookup
RegisterValueDone(env, s, l, namespace) ==
  IF ~l.found THEN Thrown(env, env.st)
  ELSE Done(env,
            Logged(registerValue(env.st, namespace, s.n, l.value),
                   Event("registerValue", namespace, s.n, l.value)),
            l.value, s)

\* the event of an export registration: whether its local is a binding
ExportEvent(st, namespace, local, ev, value) ==
  Event(IF local \in DOMAIN MapGetOrEmpty(st.namespaces, namespace)
        THEN ev ELSE "exportOfMissingLocal",
        namespace, local, value)

\* one statement of the rewritten code
ExecStatement(env, s, namespace, evalImports, fuel) ==
  CASE s.k = "const" ->
         ConstDeclared(env, s, EvalExpression(env, s.e, namespace, evalImports, fuel))
    [] s.k \in {"expr", "if"} ->
         ExpressionDone(env, s, EvalExpression(env, s.e, namespace, evalImports, fuel))
    [] s.k = "assign" ->
         Assigned(env, s, EvalExpression(env, s.e, namespace, evalImports, fuel), namespace)
    [] s.k = "throw" -> Thrown(env, env.st)
    [] s.k = "function" -> env
    [] s.k = "class" -> [env EXCEPT !.locals = MapSet(env.locals, s.n, Val("class", 0, s.n, {}))]
    [] s.k = "module_exports" ->
         ModuleExportsDone(env, s, EvalExpression(env, s.e, namespace, evalImports, fuel),
                           namespace)
    [] s.k = "exports_set" ->
         ExportsSetDone(env, s, EvalExpression(env, s.e, namespace, evalImports, fuel),
                        namespace)
    [] s.k = "registerValue" -> RegisterValueDone(env, s, Lookup(env, s.m), namespace)
    [] s.k = "registerValueExport" ->
         Done(env,
              Logged(registerValueExport(env.st, namespace, s.n, s.m),
                     ExportEvent(env.st, namespace, s.n, "registerValueExport", Str(s.m))),
              Str(s.m), s)
    [] s.k = "registerDefaultValueExport" ->
         Done(env,
              Logged(registerDefaultValueExport(env.st, namespace, s.n),
                     ExportEvent(env.st, namespace, s.n, "registerDefaultValueExport",
                                 Undefined)),
              Str("Symbol([[defaultExport]])"), s)

RECURSIVE Run(_, _, _, _, _)
\* the statements of the wrapper's try block, until one returns or throws
Run(env, body, namespace, evalImports, fuel) ==
  IF body = <<>> \/ env.status # "running" THEN env
  ELSE Run(ExecStatement(env, Head(body), namespace, evalImports, fuel),
           Tail(body), namespace, evalImports, fuel)

\* the imported key of an import declaration's specifier
Imported(s) ==
  CASE s.k = "import_namespace" -> symbols.namespaceExport
    [] s.k = "import_default" -> symbols.defaultExport
    [] OTHER -> s.m

\* a registration of an import that also creates the bindings entry of the
\* imported namespace
ImportRegisteredMarking(o, fileName, s, path) ==
  IF o.error # "none" THEN o
  ELSE Outcome(Logged(registerValueImport(
                        [o.st EXCEPT !.namespaces =
                           MapSet(o.st.namespaces, path,
                                  MapGetOrEmpty(o.st.namespaces, path))],
                        fileName, s.n,
                        CASE s.k = "import_namespace" -> symbols.namespaceExport
                          [] s.k = "import_default" -> symbols.defaultExport
                          [] OTHER -> s.m,
                        path, ~isAbsolute(path)),
                      Event("registerValueImport", fileName, s.n, Str(path))),
               Undefined, "none")

\* the registerValueImport of ImportDeclaration.enter, after the evaluation o
\* of the imported file
ImportRegistered(o, fileName, s, path) ==
  IF o.error # "none" THEN o
  ELSE Outcome(Logged(registerValueImport(o.st, fileName, s.n, Imported(s), path,
                                          ~isAbsolute(path)),
                      Event("registerValueImport", fileName, s.n, Str(path))),
               Undefined, "none")

\* an ImportDeclaration.enter that evaluates the imported file whether or not
\* its namespace is in the store
ImportDeclarationEnterAlways(st, fileName, s, evalImports, fuel) ==
  LET importedNamespace == normalizeImportPath(fileName, s.s)
      path == importedNamespace.path
      isBuiltIn == ~isAbsolute(path)
  IN  IF ~importedNamespace.ok THEN Outcome(st, Undefined, "ResolveError")
      ELSE ImportRegistered(
             IF ~isBuiltIn /\ evalImports
             THEN evaluate([st EXCEPT !.namespaces = MapSet(st.namespaces, path, EmptyMap)],
                           path, Disk[path], evalImports, fuel)
             ELSE Outcome(st, Undefined, "none"),
             fileName, s, path)

\* an ImportDeclaration.enter that evaluates the imported file apart from the
\* store: of what the file registers, only the namespace's mark is kept
ImportDeclarationEnterIsolated(st, fileName, s, evalImports, fuel) ==
  LET importedNamespace == normalizeImportPath(fileName, s.s)
      path == importedNamespace.path
      isBuiltIn == ~isAbsolute(path)
      marked == [st EXCEPT !.namespaces = MapSet(st.namespaces, path, EmptyMap)]
  IN  IF ~importedNamespace.ok THEN Outcome(st, Undefined, "ResolveError")
      ELSE ImportRegistered(
             IF ~isBuiltIn /\ evalImports /\ path \notin DOMAIN st.namespaces
             THEN Outcome([marked EXCEPT !.log =
                             evaluate(marked, path, Disk[path], evalImports, fuel).st.log],
                          Undefined, "none")
             ELSE Outcome(st, Undefined, "none"),
             fileName, s, path)

\* an ImportDeclaration.enter that evaluates the imported file whatever
\* evalImports is
ImportDeclarationEnterEager(st, fileName, s, evalImports, fuel) ==
  LET importedNamespace == normalizeImportPath(fileName, s.s)
      path == importedNamespace.path
      isBuiltIn == ~isAbsolute(path)
  IN  IF ~importedNamespace.ok THEN Outcome(st, Undefined, "ResolveError")
      ELSE ImportRegistered(
             IF ~isBuiltIn /\ path \notin DOMAIN st.namespaces
             THEN evaluate([st EXCEPT !.namespaces = MapSet(st.namespaces, path, EmptyMap)],
                           path, Disk[path], evalImports, fuel)
             ELSE Outcome(st, Undefined, "none"),
             fileName, s, path)

\* ImportDeclaration.enter: resolve the source, evaluate the imported file
\* first when asked to and its namespace is not in the store, then record the
\* import of the statement's specifier
ImportDeclarationEnter(st, fileName, s, evalImports, fuel) ==
  LET importedNamespace == normalizeImportPath(fileName, s.s)
      path == importedNamespace.path
      isBuiltIn == ~isAbsolute(path)
  IN  IF ~importedNamespace.ok THEN Outcome(st, Undefined, "ResolveError")
      ELSE ImportRegistered(
             IF ~isBuiltIn /\ evalImports /\ path \notin DOMAIN st.namespaces
             THEN evaluate([st EXCEPT !.namespaces = MapSet(st.namespaces, path, EmptyMap)],
                           path, Disk[path], evalImports, fuel)
             ELSE Outcome(st, Undefined, "none"),
             fileName, s, path)

RECURSIVE transform(_, _, _, _, _)
\* the rest of the traversal, after the visit o of a statement
Traversed(o, namespace, rest, evalImports, fuel) ==
  IF o.error # "none" THEN o
  ELSE transform(o.st, namespace, rest, evalImports, fuel)

\* babel.transformSync with the plugin: the visitors that touch the store or
\* throw, statement by statement; the code it returns is Rewritten(code)
transform(st, namespace, code, evalImports, fuel) ==
  IF code = <<>> THEN Outcome(st, Undefined, "none")
  ELSE Traversed(
         CASE Head(code).k \in ImportKinds ->
                ImportDeclarationEnter(st, namespace, Head(code), evalImports, fuel)
           [] Head(code).k = "export_default_expr" ->
                Outcome(st, Undefined, "UnsupportedError")
           [] OTHER -> Outcome(st, Undefined, "none"),
         namespace, Tail(code), evalImports, fuel)

\* the names the fragment declares with const at its top level
Declared(code) ==
  {code[i].n : i \in {j \in 1..Len(code) :
                        code[j].k \in {"const", "export_const", "class", "export_class"}}}

\* the names the fragment declares with const
Constants(code) ==
  {code[i].n : i \in {j \in 1..Len(code) : code[j].k \in {"const", "export_const"}}}

\* the function declarations of the fragment: bound when the run begins
Hoisted(code) ==
  LET names == {code[i].n : i \in {j \in 1..Len(code) :
                                     code[j].k \in {"function", "export_function"}}}
  IN  [n \in names |-> Val("function", 0, n, {})]

\* the scope of a run of code in namespace, over the store st
Scope(st, namespace, code) ==
  [st |-> Logged(st, Event("run", namespace, "", Undefined)),
   locals |-> Hoisted(code),
   declared |-> Declared(code),
   constants |-> Constants(code),
   nsForScope |-> nsForScope(st, namespace),
   nsImportsForScope |-> nsImportsForScope(st, namespace),
   context |-> ContextObject(namespace),
   status |-> "running",
   result |-> Undefined]

\* what the wrapper gives when a run ends with a store put back to st0 on a throw
ReturnedOrRolledBack(end, st0, namespace) ==
  CASE end.status = "returned" -> Outcome(end.st, end.result, "none")
    [] end.status = "thrown" ->
         Outcome(Logged([st0 EXCEPT !.log = end.st.log],
                        Event("caught", namespace, "", Undefined)),
                 Undefined, "none")
    [] OTHER -> Outcome(end.st, Undefined, "none")

\* what the wrapper function gives when the run has ended: the returned
\* value, or undefined after its catch
Returned(end, namespace) ==
  CASE end.status = "returned" -> Outcome(end.st, end.result, "none")
    [] end.status = "thrown" ->
         Outcome(Logged(end.st, Event("caught", namespace, "", Undefined)),
                 Undefined, "none")
    [] OTHER -> Outcome(end.st, Undefined, "none")

\* a run that is skipped when the transform threw, the error being dropped
ExecutedSwallowing(t, namespace, code, evalImports, fuel) ==
  IF t.error # "none" THEN Outcome(t.st, Undefined, "none")
  ELSE Returned(Run(Scope(t.st, namespace, code), Rewritten(code), namespace,
                    evalImports, fuel),
                namespace)

\* vm.runInContext on the transformed code, t being what transform gave
Executed(t, namespace, code, evalImports, fuel) ==
  IF t.error # "none" THEN t
  ELSE Returned(Run(Scope(t.st, namespace, code), Rewritten(code), namespace,
                    evalImports, fuel),
                namespace)

ExecutedWithRollback(t, st0, namespace, code, evalImports, fuel) ==
  IF t.error # "none" THEN t
  ELSE ReturnedOrRolledBack(Run(Scope(t.st, namespace, code), Rewritten(code), namespace,
                                evalImports, fuel),
                            st0, namespace)

\* an evaluate that puts the store back as it was when the user code throws
evaluateRollback(st, namespace, code, evalImports, fuel) ==
  IF fuel = 0
    THEN Outcome(Logged(st, Event("overflow", namespace, "", Undefined)), Undefined, "RangeError")
  ELSE ExecutedWithRollback(
         transform(Logged(st, Event("evaluate", namespace, "", Undefined)),
                   namespace, code, evalImports, fuel - 1),
         st, namespace, code, evalImports, fuel - 1)

\* an evaluate that first creates the empty bindings entry of its namespace
evaluateMarking(st, namespace, code, evalImports, fuel) ==
  IF fuel = 0
    THEN Outcome(Logged(st, Event("overflow", namespace, "", Undefined)), Undefined, "RangeError")
  ELSE Executed(transform(Logged([st EXCEPT !.namespaces =
                                    MapSet(st.namespaces, namespace,
                                           MapGetOrEmpty(st.namespaces, namespace))],
                                 Event("evaluate", namespace, "", Undefined)),
                          namespace, code, evalImports, fuel - 1),
                namespace, code, evalImports, fuel - 1)

evaluate(st, namespace, code, evalImports, fuel) ==
  IF fuel = 0
    THEN Outcome(Logged(st, Event("overflow", namespace, "", Undefined)), Undefined, "RangeError")
  ELSE Executed(transform(Logged(st, Event("evaluate", namespace, "", Undefined)),
                          namespace, code, evalImports, fuel - 1),
                namespace, code, evalImports, fuel - 1)

(***************************************************************************)
(* The fragments the session evaluates.                                    *)
(***************************************************************************)
\* fragments of one file that declare, redefine and read names
ReplFragments ==
  { <<Const("x", Lit(1))>>,
    <<Const("x", Lit(2))>>,
    <<ExprStmt(Ref("x"))>>,
    <<Const("x", Lit(2)), ExprStmt(Twice("x"))>>,
    <<ExprStmt(Lit(3))>>,
    <<IfTrue(Lit(7)), ExprStmt(Lit(3))>>,
    <<Const("x", Lit(1)), Throw>>,
    <<ImportNamed("x", "x", "./V"), ExprStmt(Ref("x"))>>,
    <<Const("__filename", Lit(1))>>,
    <<ImportDefault("__filename", "fs")>>,
    <<ExprStmt(Ref("__filename"))>>,
    <<Const("console", Lit(1))>>,
    <<ExprStmt(Ref("console"))>>
  }

\* fragments that reach other modules
ModuleFragments ==
  { <<ExprStmt(Require("./M"))>>,
    <<ExprStmt(Require("/M"))>>,
    <<ModuleExports(Lit(7))>>,
    <<ExportSpec("nope", "nope")>>,
    <<ImportNamed("y", "y", "./nope")>>,
    <<ExprStmt(Require("./nope"))>>,
    <<ExprStmt(DynImport("./nope"))>>,
    <<ExprStmt(DynImport("./M"))>>
  }

\* fragments of a file that export declarations and defaults
ExportFragments ==
  { <<ExportConst("x", Lit(1))>>,
    <<ExportFunction("f")>>,
    <<ExportClass("K")>>,
    <<ExportConst("y", Lit(2)), ExportFunction("g")>>,
    <<Const("d", Lit(1)), ExportDefaultId("d")>>,
    <<ExportDefaultExpr(Lit(5))>>,
    <<ImportNamed("vx", "x", "./V"), ExportDefaultExpr(Lit(5))>>,
    <<ImportNamed("vx", "x", "./V"), ImportNamed("y", "y", "./nope")>>
  }

\* fragments that assign to names they do not declare
AssignFragments ==
  { <<Const("x", Lit(1))>>,
    <<Const("x", Lit(2))>>,
    <<Assign("x", Lit(5))>>,
    <<ExprStmt(Ref("x"))>>,
    <<Assign("x", Lit(5)), ExprStmt(Ref("x"))>>,
    <<ImportNamed("vx", "x", "./V")>>,
    <<Assign("vx", Lit(6))>>,
    <<ExprStmt(Ref("vx"))>>,
    <<Assign("console", Lit(7))>>,
    <<ExprStmt(Ref("console"))>>,
    <<Assign("u", Lit(8))>>,
    <<ExprStmt(Ref("u"))>>
  }

\* fragments evaluated in the files that call each other
CycleFragments ==
  { <<Const("p", Lit(2))>>,
    <<Const("r", Lit(2))>>,
    <<ExprStmt(Ref("p"))>>
  }

\* fragments of a CommonJS file
CjsFragments ==
  { <<ExportsSet("k", Lit(1))>>,
    <<ExportsSet("j", Lit(2))>>,
    <<ModuleExports(ObjLit)>>,
    <<ModuleExports(ObjLit), ExportsSet("k", Lit(1))>>,
    <<ModuleExports(Lit(7))>>,
    <<ModuleExports(Lit(7)), ExportsSet("k", Lit(1))>>,
    <<ModuleExports(Lit(0)), ExportsSet("k", Lit(1))>>
  }

\* fragments of a file that import from /V and from a built-in, and read
\* what they imported
ImporterFragments ==
  { <<ImportNamespace("V", "./V"), ExprStmt(Member("V", "x"))>>,
    <<ImportNamed("vx", "x", "./V")>>,
    <<ExprStmt(Ref("vx"))>>,
    <<ImportDefault("fs", "fs"), ExprStmt(Ref("fs"))>>,
    <<ExprStmt(Ref("fs"))>>,
    <<ImportNamed("vq", "q", "./V"), ExprStmt(Ref("vq"))>>
  }

\* fragments of /V that define, redefine and export
ExporterFragments ==
  { <<ExportConst("x", Lit(1))>>,
    <<Const("x", Lit(2))>>,
    <<ExportSpec("q", "q")>>
  }

(***************************************************************************)
(* The session: one evaluate() call after another.                         *)
(***************************************************************************)
NoCall ==
  [namespace |-> "", code |-> <<>>, evalImports |-> FALSE, result |-> Undefined,
   error |-> "none", log |-> <<>>]

Init ==
  /\ namespaces = EmptyMap
  /\ valueExports = EmptyMap
  /\ valueImports = EmptyMap
  /\ uuidCount = 0
  /\ last = NoCall

\* the store and the record of the call after an evaluate() that gave o
Committed(o, namespace, code, evalImports) ==
  /\ o.st.uuid <= MaxUuid
  /\ namespaces' = o.st.namespaces
  /\ valueExports' = o.st.valueExports
  /\ valueImports' = o.st.valueImports
  /\ uuidCount' = o.st.uuid
  /\ last' = [namespace |-> namespace, code |-> code, evalImports |-> evalImports,
              result |-> o.result, error |-> o.error, log |-> o.st.log]

Evaluate(namespace, code, evalImports) ==
  Committed(evaluate(Store(namespaces, valueExports, valueImports, uuidCount),
                     namespace, code, evalImports, MaxDepth),
            namespace, code, evalImports)

\* the user evaluates a selection of an open file
EvaluateSelection(files, fragments) ==
  \E namespace \in files, code \in fragments, evalImports \in BOOLEAN :
     Evaluate(namespace, code, evalImports)

\* the user evaluates a whole file as it is on disk
EvaluateFile(files) ==
  \E namespace \in files, evalImports \in BOOLEAN :
     Evaluate(namespace, Disk[namespace], evalImports)

Next == EvaluateSelection({"/A"}, ReplFragments)

Spec == Init /\ [][Next]_vars

NextModules ==
  \/ EvaluateSelection({"/A", "/M"}, ModuleFragments)
  \/ EvaluateFile({"/A", "/B", "/M"})

SpecModules == Init /\ [][NextModules]_vars

NextImports ==
  \/ EvaluateSelection({"/A"}, ImporterFragments)
  \/ EvaluateSelection({"/V"}, ExporterFragments)

SpecImports == Init /\ [][NextImports]_vars

NextAssign == EvaluateSelection({"/A"}, AssignFragments)

SpecAssign == Init /\ [][NextAssign]_vars

NextCycles ==
  \/ EvaluateSelection({"/P", "/R"}, CycleFragments)
  \/ EvaluateFile({"/P", "/Q", "/R", "/S"})

SpecCycles == Init /\ [][NextCycles]_vars

NextCjs == EvaluateSelection({"/M", "/A"}, CjsFragments)

SpecCjs == Init /\ [][NextCjs]_vars

NextExports == EvaluateSelection({"/A"}, ExportFragments)

SpecExports == Init /\ [][NextExports]_vars

(***************************************************************************)
(* Properties.                                                             *)
(***************************************************************************)
\* the events of the last call
LogIndexes == 1..Len(last.log)
HasEvent(ev, ns) == \E i \in LogIndexes : last.log[i].ev = ev /\ last.log[i].ns = ns
\* the user code of the call itself (not of a file it evaluated) threw
UserCodeThrew ==
  /\ last.log # <<>>
  /\ last.log[Len(last.log)].ev = "caught"
  /\ last.log[Len(last.log)].ns = last.namespace
Bindings(ns) == MapGetOrEmpty(namespaces, ns)
IsRead(n) == last.code = <<ExprStmt(Ref(n))>>
LastStatement == last.code[Len(last.code)]

\* C1: after a call that ran `const n = <literal>` in a namespace, the
\* namespace's binding n holds that literal, whatever it held before; and a
\* call that reads a bound name n returns the binding's value.
C1_RedefinitionOverwrites ==
  /\ \A i \in 1..Len(last.code) :
       LET s == last.code[i]
       IN  ( /\ s.k = "const"
             /\ s.e.k = "lit"
             /\ \E j \in LogIndexes :
                  /\ last.log[j].ev = "registerValue"
                  /\ last.log[j].ns = last.namespace
                  /\ last.log[j].key = s.n )
           => /\ s.n \in DOMAIN Bindings(last.namespace)
              /\ Bindings(last.namespace)[s.n] = Num(s.e.v)
  /\ \A n \in DOMAIN Bindings(last.namespace) :
       IsRead(n) => last.error = "none" /\ last.result = Bindings(last.namespace)[n]

\* C1 witness: x was defined as 1, redefined as 2, and read back as 2
C1_Witness ==
  /\ IsRead("x")
  /\ last.result = Num(2)
  /\ "x" \in DOMAIN Bindings(last.namespace)
  /\ Bindings(last.namespace)["x"] = Num(2)

\* C2 as stated: a fragment whose last statement is not an expression
\* statement evaluates to undefined.
C2_Original ==
  (last.code # <<>> /\ LastStatement.k \notin {"expr", "module_exports"})
     => last.result = Undefined

\* C2 amended: when the last statement of the fragment is `const n = <literal>`
\* and the run reaches it, evaluate returns the declared value (the value of
\* the registerValue call inserted after it); a fragment of import
\* declarations only, or one ending in a throw, evaluates to undefined.
C2_DeclarationValue ==
  /\ ( /\ last.code # <<>>
       /\ last.error = "none"
       /\ LastStatement.k = "const"
       /\ LastStatement.e.k = "lit"
       /\ ~UserCodeThrew )
     => last.result = Num(LastStatement.e.v)
  /\ ( /\ last.code # <<>>
       /\ last.error = "none"
       /\ \/ LastStatement.k = "throw"
          \/ \A i \in 1..Len(last.code) : last.code[i].k \in ImportKinds )
     => last.result = Undefined

\* C2 witness: `const x = 1` has been evaluated and gave 1
C2_Witness ==
  /\ last.code = <<Const("x", Lit(1))>>
  /\ last.result = Num(1)

\* C3 as stated: when the last statement of the fragment is an expression
\* statement and the user code does not throw, evaluate returns the value of
\* that expression.
C3_TrailingExpression ==
  ( /\ last.code # <<>>
    /\ last.error = "none"
    /\ ~UserCodeThrew
    /\ LastStatement.k = "expr" )
  => /\ LastStatement.e.k = "lit" => last.result = Num(LastStatement.e.v)
     /\ ( /\ LastStatement.e.k = "twice"
          /\ Len(last.code) = 2
          /\ last.code[1].k = "const"
          /\ last.code[1].n = LastStatement.e.n
          /\ last.code[1].e.k = "lit" )
        => last.result = Num(2 * last.code[1].e.v)

\* C4 as stated: require(s) with s resolving to a user file M returns the
\* value registered in the store as M's default export, or undefined.
C4_RequireReadsStore ==
  \A s \in {"./M", "/M"} :
     (last.code = <<ExprStmt(Require(s))>> /\ last.error = "none")
        => last.result = ExportedValue(Store(namespaces, valueExports, valueImports, uuidCount),
                                       normalizeImportPath(last.namespace, s).path,
                                       symbols.defaultExport)

\* C5: evaluating /A or /B, which import from each other, with evalImports
\* ends without error within the depth the cycle needs; every binding the
\* executed code registered is in its namespace, and when the code of both
\* files ran, a is in /A and b is in /B.
C5_CyclicImportsTerminate ==
  ( /\ last.namespace \in {"/A", "/B"}
    /\ last.code = Disk[last.namespace]
    /\ last.evalImports )
  => /\ last.error = "none"
     /\ \A i \in LogIndexes :
          /\ last.log[i].ev # "overflow"
          /\ last.log[i].ev = "registerValue" =>
               /\ last.log[i].key \in DOMAIN Bindings(last.log[i].ns)
               /\ Bindings(last.log[i].ns)[last.log[i].key] = last.log[i].value
     /\ HasEvent("run", last.namespace)
     /\ (HasEvent("run", "/A") /\ HasEvent("run", "/B")) =>
          /\ "a" \in DOMAIN Bindings("/A") /\ Bindings("/A")["a"] = Num(1)
          /\ "b" \in DOMAIN Bindings("/B") /\ Bindings("/B")["b"] = Num(2)

\* C5 witness: /A was evaluated first, which evaluated /B, which evaluated /A
C5_Witness ==
  /\ last.namespace = "/A"
  /\ last.code = Disk["/A"]
  /\ last.evalImports
  /\ \E i, j \in LogIndexes :
       /\ i < j
       /\ last.log[i].ev = "evaluate" /\ last.log[i].ns = "/B"
       /\ last.log[j].ev = "evaluate" /\ last.log[j].ns = "/A"
  /\ "a" \in DOMAIN Bindings("/A")
  /\ "b" \in DOMAIN Bindings("/B")

\* the call evaluated `import { x } from './V'; x` with evalImports and found
\* /V not evaluated yet
ImportedFresh ==
  /\ last.code = <<ImportNamed("x", "x", "./V"), ExprStmt(Ref("x"))>>
  /\ last.evalImports
  /\ HasEvent("evaluate", "/V")

\* C6 as stated: the local x of the importing fragment then resolves to the
\* value /V exports, 42.
C6_Original == ImportedFresh => last.result = Num(42)

\* C6 amended: /V is evaluated, its binding and export registered, before the
\* body of the importing fragment runs; x resolves to 42 when the importing
\* namespace has no binding named x (a binding shadows the import).
C6_ImportedBeforeBody ==
  ImportedFresh =>
    /\ \E i, j \in LogIndexes :
         /\ i < j
         /\ last.log[i] = Event("registerValue", "/V", "x", Num(42))
         /\ last.log[j].ev = "run" /\ last.log[j].ns = last.namespace
    /\ "x" \notin DOMAIN Bindings(last.namespace) => last.result = Num(42)

C6_Witness ==
  /\ ImportedFresh
  /\ "x" \notin DOMAIN Bindings(last.namespace)
  /\ last.result = Num(42)

\* C7 as stated: a call in which an export is registered whose local has no
\* binding in the namespace throws MissingLocalError.
C7_MissingLocalThrows ==
  (\E i \in LogIndexes : last.log[i].ev = "exportOfMissingLocal")
     => last.error = "MissingLocalError"

\* the specifiers of the last call's fragment that are reached by a static
\* import, by require() and by import()
StaticSpecifiers == {last.code[i].s : i \in {j \in 1..Len(last.code) : last.code[j].k \in ImportKinds}}
CalledSpecifiers ==
  {last.code[i].e.s :
     i \in {j \in 1..Len(last.code) :
              last.code[j].k = "expr" /\ last.code[j].e.k \in {"require", "import"}}}
Unresolved(specifiers) ==
  \E s \in specifiers : RequireResolve(last.namespace, s) = "MODULE_NOT_FOUND"

\* C8 as stated: a specifier that does not resolve makes evaluate throw,
\* however it was reached.
C8_Original ==
  Unresolved(StaticSpecifiers \cup CalledSpecifiers) => last.error # "none"

\* C8 amended: a static import of a specifier that does not resolve makes
\* evaluate throw the resolver's error; a require() or import() of one throws
\* inside the user code, where the wrapper catches it: evaluate returns
\* undefined.
C8_ResolveErrors ==
  /\ Unresolved(StaticSpecifiers) => last.error = "ResolveError"
  /\ (last.code # <<>> /\ LastStatement.k = "expr" /\ Len(last.code) = 1
      /\ Unresolved(CalledSpecifiers))
     => last.error = "none" /\ last.result = Undefined /\ UserCodeThrew

C8_Witness ==
  /\ last.code = <<ImportNamed("y", "y", "./nope")>>
  /\ last.error = "ResolveError"

LayerBindings == Bindings(last.namespace)
LayerImports ==
  nsImportsForScope(Store(namespaces, valueExports, valueImports, uuidCount), last.namespace)
LayerStubs == cjsStubs(last.namespace)
LayerGlobals == vmGlobal

\* C10 as stated: a name in several layers resolves to the CJS stub, else to
\* the import, else to the binding, else to the host global.
C10_Original ==
  \A n \in {"x", "__filename", "console"} :
     (IsRead(n) /\ ~UserCodeThrew) =>
        last.result =
          IF n \in DOMAIN LayerStubs THEN LayerStubs[n]
          ELSE IF n \in DOMAIN LayerImports THEN LayerImports[n]
          ELSE IF n \in DOMAIN LayerBindings THEN LayerBindings[n]
          ELSE LayerGlobals[n]

\* C10 amended: a name in several layers resolves to the binding of the
\* namespace, else to the import, else to the CJS stub, else to the host
\* global.
C10_ScopePriority ==
  \A n \in {"x", "__filename", "console"} :
     (IsRead(n) /\ ~UserCodeThrew) =>
        last.result =
          IF n \in DOMAIN LayerBindings THEN LayerBindings[n]
          ELSE IF n \in DOMAIN LayerImports THEN LayerImports[n]
          ELSE IF n \in DOMAIN LayerStubs THEN LayerStubs[n]
          ELSE LayerGlobals[n]

\* C10 witness: __filename is a binding, an import and a stub, and reads as
\* the binding
C10_Witness ==
  /\ IsRead("__filename")
  /\ "__filename" \in DOMAIN LayerBindings
  /\ "__filename" \in DOMAIN LayerImports
  /\ last.result = LayerBindings["__filename"]

\* the value namespace ns exports under the name e, in the store as it is
Exported(ns, e) ==
  ExportedValue(Store(namespaces, valueExports, valueImports, uuidCount), ns, e)
Imports(ns) == MapGetOrEmpty(valueImports, ns)
ReadsNamespaceImport ==
  last.code = <<ImportNamespace("V", "./V"), ExprStmt(Member("V", "x"))>>

ImportsBuiltIn == <<ImportDefault("fs", "fs"), ExprStmt(Ref("fs"))>>

NoExports(ns) == ns \notin DOMAIN valueExports
NoExportUnder(ns, e) == ns \in DOMAIN valueExports /\ e \notin DOMAIN valueExports[ns]
NoBindingUnder(ns, e) ==
  /\ ns \in DOMAIN valueExports
  /\ e \in DOMAIN valueExports[ns]
  /\ valueExports[ns][e].local \notin DOMAIN Bindings(ns)
ChainBroken(ns, e) == NoExports(ns) \/ NoExportUnder(ns, e) \/ NoBindingUnder(ns, e)

ReadsImportOfQ == last.code = <<ImportNamed("vq", "q", "./V"), ExprStmt(Ref("vq"))>>

Known == (DOMAIN namespaces) \cup (DOMAIN valueExports)
KnownAfter == (DOMAIN namespaces') \cup (DOMAIN valueExports')

\* C15: a call with evalImports false evaluates no file but its own fragment,
\* whether the fragment imports statically, calls require() or import(): the
\* bindings and the exports of every other namespace are after the call what
\* they were before it.
C15_NoEvalImports ==
  [][ ~last'.evalImports =>
        /\ \A i \in 1..Len(last'.log) :
             last'.log[i].ev = "evaluate" => last'.log[i].ns = last'.namespace
        /\ \A ns \in (Known \cup KnownAfter) \ {last'.namespace} :
             /\ (ns \in DOMAIN namespaces') = (ns \in DOMAIN namespaces)
             /\ MapGetOrEmpty(namespaces', ns) = MapGetOrEmpty(namespaces, ns)
             /\ (ns \in DOMAIN valueExports') = (ns \in DOMAIN valueExports)
             /\ MapGetOrEmpty(valueExports', ns) = MapGetOrEmpty(valueExports, ns) ]_vars

\* /A evaluated as it is on disk without evalImports: its import of /B is
\* recorded and /B is not in the store
C15_Witness ==
  /\ last.namespace = "/A"
  /\ last.code = Disk["/A"]
  /\ ~last.evalImports
  /\ "b" \in DOMAIN Imports("/A")
  /\ "/B" \notin Known

\* the fragment is made of expression statements, unbraced ifs and throws
\* that read names and literals only: it declares, exports and imports
\* nothing, and calls neither require() nor import()
IntroducesNothing(code) ==
  \A i \in 1..Len(code) :
     /\ code[i].k \in {"expr", "if", "throw"}
     /\ code[i].e.k \in {"lit", "ref", "twice", "member"}

\* C16: a call whose fragment introduces no binding, export, import or
\* CommonJS export leaves the bindings, the exports and the imports of every
\* namespace as they were, also when its namespace has no entry in the store.
C16_StoreUnchanged ==
  [][ IntroducesNothing(last'.code) =>
        /\ namespaces' = namespaces
        /\ valueExports' = valueExports
        /\ valueImports' = valueImports ]_vars

\* `3` evaluated in a namespace with no entry in the store
C16_Witness ==
  /\ last.code = <<ExprStmt(Lit(3))>>
  /\ last.result = Num(3)
  /\ last.namespace \notin Known \cup DOMAIN valueImports

HasDefaultExportOfExpression ==
  \E i \in 1..Len(last.code) : last.code[i].k = "export_default_expr"

\* C17: a call whose fragment holds `export default 5` (its static imports
\* resolving) throws UnsupportedError to its caller: it returns no value and
\* the fragment is not run. `export default d`, d an identifier, does not.
C17_UnsupportedDefaultExport ==
  /\ (HasDefaultExportOfExpression /\ ~Unresolved(StaticSpecifiers)) =>
       /\ last.error = "UnsupportedError"
       /\ last.result = Undefined
       /\ ~HasEvent("run", last.namespace)
  /\ last.code = <<Const("d", Lit(1)), ExportDefaultId("d")>> => last.error = "none"

C17_Witness ==
  /\ last.code = <<ExportDefaultExpr(Lit(5))>>
  /\ last.error = "UnsupportedError"

\* the positions in the last call's log where the evaluation of ns starts
EvaluationsOf(ns) ==
  {i \in LogIndexes : last.log[i].ev = "evaluate" /\ last.log[i].ns = ns}

\* C18 as stated: the namespace of a call is marked before its imports are
\* evaluated, so on a cycle of imports its own file is not evaluated again
\* inside the call: a call that evaluates /A or /B as it is on disk, with
\* evalImports, starts one evaluation of its namespace.
C18_MarkedBeforeImports ==
  ( /\ last.evalImports
    /\ last.namespace \in {"/A", "/B"}
    /\ last.code = Disk[last.namespace] )
  => Cardinality(EvaluationsOf(last.namespace)) <= 1

\* the value the namespace's default export resolves to
DefaultExport(ns) == Exported(ns, symbols.defaultExport)
HasProperty(v, prop, value) == <<prop, value>> \in v.p

\* C19 as stated: in a call, `exports.k = 1` run before any assignment to
\* module.exports shows in the namespace's default export; after
\* `module.exports = {}` has run, `exports.k = 1` leaves the object that was
\* assigned, the default export, as it was.
C19_ExportsAliasing ==
  /\ last.code = <<ExportsSet("k", Lit(1))>> =>
       HasProperty(DefaultExport(last.namespace), "k", Num(1))
  /\ last.code = <<ModuleExports(ObjLit), ExportsSet("k", Lit(1))>> =>
       DefaultExport(last.namespace) = Obj({})

\* the names the exported declarations of the last call's fragment bind
ExportedDeclarations ==
  {last.code[i].n :
     i \in {j \in 1..Len(last.code) :
              last.code[j].k \in {"export_const", "export_function", "export_class"}}}
\* the registrations of an export of local n by the last call
ExportRegistrations(n) ==
  {i \in LogIndexes :
     /\ last.log[i].ev \in {"registerValueExport", "exportOfMissingLocal"}
     /\ last.log[i].ns = last.namespace
     /\ last.log[i].key = n}
Exports(ns) == MapGetOrEmpty(valueExports, ns)

\* C20 as stated: after a call whose fragment ran to its end, each name bound
\* by an exported declaration of the fragment (const, function or class) is in
\* the namespace's exports under its own name, with itself as the local, and
\* the call registered that export once.
C20_ExportedDeclarations ==
  (last.error = "none" /\ ~UserCodeThrew) =>
    \A n \in ExportedDeclarations :
       /\ n \in DOMAIN Exports(last.namespace)
       /\ Exports(last.namespace)[n] = [exported |-> n, local |-> n]
       /\ Cardinality(ExportRegistrations(n)) = 1

\* the fragment is made of assignments to names and reads of names
AssignsAndReads(code) ==
  /\ \E i \in 1..Len(code) : code[i].k = "assign"
  /\ \A i \in 1..Len(code) :
       \/ code[i].k = "assign" /\ code[i].e.k = "lit"
       \/ code[i].k = "expr" /\ code[i].e.k = "ref"

\* C21: a call whose fragment assigns to names it does not declare (a binding
\* of the namespace, an import, a host global, an unknown name) leaves the
\* bindings, exports and imports of the store as they were; within the call
\* the assigned binding reads as assigned; and a later call that reads a
\* binding returns the value the store holds for it.
C21_AssignmentNotPersisted ==
  [][ /\ AssignsAndReads(last'.code) =>
           /\ namespaces' = namespaces
           /\ valueExports' = valueExports
           /\ valueImports' = valueImports
      /\ ( /\ last'.code = <<Assign("x", Lit(5)), ExprStmt(Ref("x"))>>
           /\ "x" \in DOMAIN Bindings(last'.namespace) )
         => last'.result = Num(5)
      /\ ( /\ last'.code = <<ExprStmt(Ref("x"))>>
           /\ "x" \in DOMAIN Bindings(last'.namespace) )
         => last'.result = Bindings(last'.namespace)["x"] ]_vars

\* `x = 5; x` has given 5 while the binding x of the namespace is 1
C21_Witness ==
  /\ last.code = <<Assign("x", Lit(5)), ExprStmt(Ref("x"))>>
  /\ last.result = Num(5)
  /\ "x" \in DOMAIN Bindings(last.namespace)
  /\ Bindings(last.namespace)["x"] = Num(1)

\* the call evaluated /P or /R as it is on disk, with evalImports: files that
\* depend on each other through require() (/P, /Q) and import() (/R, /S)
EvaluatesCallCycle ==
  /\ last.evalImports
  /\ last.namespace \in {"/P", "/R"}
  /\ last.code = Disk[last.namespace]
Overflowed == \E i \in LogIndexes : last.log[i].ev = "overflow"

\* C22 as stated: such a call ends without exhausting the stack, because a
\* namespace that is in the store is not evaluated again through require()
\* or import(): the call starts at most one evaluation of each file.
C22_CallCyclesTerminate ==
  EvaluatesCallCycle =>
    /\ ~Overflowed
    /\ \A ns \in DOMAIN Disk : Cardinality(EvaluationsOf(ns)) <= 1

\* C23 as stated: when the export of a name bound by an exported declaration
\* of the fragment is registered, the namespace has a binding under the
\* export's local: the binding was registered first.
C23_BindingBeforeExport ==
  \A i \in LogIndexes :
     ( /\ last.log[i].ns = last.namespace
       /\ last.log[i].key \in ExportedDeclarations )
     => last.log[i].ev # "exportOfMissingLocal"

\* C24 as stated: a call that fails while its fragment is rewritten (an
\* unsupported default export, an import that does not resolve) leaves the
\* bindings, the exports and the imports of the store as they were before it.
C24_FailedRewriteLeavesStore ==
  [][ last'.error \in {"UnsupportedError", "ResolveError"} =>
        /\ namespaces' = namespaces
        /\ valueExports' = valueExports
        /\ valueImports' = valueImports ]_vars

\* C25 as stated: a call that evaluates again the fragment the call before
\* it evaluated, in the same namespace, leaves the namespace with the binding
\* keys it had after that first evaluation.
C25_ReevaluationKeepsKeys ==
  [][ ( /\ last.code # <<>>
        /\ last'.code = last.code
        /\ last'.namespace = last.namespace
        /\ last.error = "none"
        /\ last'.error = "none" )
      => DOMAIN MapGetOrEmpty(namespaces', last.namespace)
           = DOMAIN MapGetOrEmpty(namespaces, last.namespace) ]_vars

\* C26 as stated: in the rewritten code of the fragment a call evaluated, a
\* statement turned into a return is the last statement: every statement
\* before the last one runs on and lets the next one execute.
C26_ReturnOnlyLast ==
  \A i \in 1..Len(Rewritten(last.code)) :
     Rewritten(last.code)[i].ret => i = Len(Rewritten(last.code))

====
